---- MODULE Spec2Model ----
(***************************************************************************)
(* Model of the streaming and multi-exchange core of pebble-crypto-backend *)
(*   app/api/routes/websockets.py     ConnectionManager, /live/{symbol},   *)
(*                                    /multi, /connections                 *)
(*   app/api/routes/multi_exchange.py /best-prices, /arbitrage             *)
(*   app/api/routes/market_advisor.py /recommendations (validation only)   *)
(*   app/main.py, app/routers/pairs.py  create_app and the routing of GETs *)
(*   Exchange Registry and Price Aggregator of the market agent, which the *)
(*   handlers call                                                         *)
(*                                                                         *)
(* Coroutines are sequences of atomic steps; one step runs from one await  *)
(* (suspension point) to the next, as the asyncio event loop runs them.    *)
(***************************************************************************)
EXTENDS Integers, Sequences, FiniteSets, TLC

\* ---------------------------------------------------------------- bounds
\* number of WebSocket objects of the manager and /live specifications
MaxConns == 2

Conns == 1..MaxConns

\* the symbols clients ask for, already in the upper-case form the keys have
Symbols == {"BTCUSDT", "ETHUSDT"}

NoSymbol == "-"

VARIABLES
    active_connections, \* ConnectionManager.active_connections: symbol -> set of sockets
    closed,             \* sockets whose transport has gone away: a send to them raises
    bc,                 \* the broadcast coroutine in flight (its locals and its position)
    live,               \* per socket: the websocket_live_data coroutine serving it
    lastFrame,          \* per socket: the last frame its client received
    mh,                 \* the websocket_multi_symbol coroutine of the /multi socket
    subscribed_symbols, \* its local set subscribed_symbols
    ds,                 \* its data_sender task
    mclosed,            \* the transport of the /multi socket has gone away
    mwire,              \* the last frame the /multi client received
    quick,              \* history: symbols subscribed by one frame, dropped by the next
    http,               \* the batch request being served: handler position, endpoint, body
    price_data,         \* what market_agent.find_best_prices returned to the handler
    response,           \* the answer of the batch request
    answers,            \* history: what each adapter answered for each symbol of it
    health,             \* Exchange Registry: per adapter, its health state
    history,            \* history: the recordResult calls made so far, in order
    SYMBOLS_CACHE,      \* the symbol cache: cache key -> list of symbols
    lastGet             \* the last market-data or prediction GET and its answer

vars == <<active_connections, closed, bc, live, lastFrame,
          mh, subscribed_symbols, ds, mclosed, mwire, quick,
          http, price_data, response, answers, health, history,
          SYMBOLS_CACHE, lastGet>>
batchVars == <<http, price_data, response, answers>>
registryVars == <<health, history>>
marketVars == <<SYMBOLS_CACHE, lastGet>>
multiVars == <<mh, subscribed_symbols, ds, mclosed, mwire, quick>>
mgrVars == <<active_connections, closed, bc>>
liveVars == <<live, lastFrame>>

\* ------------------------------------------------------ ConnectionManager

\* the dictionary with key k bound to v (added when absent)
DictSet(d, k, v) == [x \in DOMAIN d \cup {k} |-> IF x = k THEN v ELSE d[x]]

\* the dictionary without key k
DictDel(d, k) == [x \in DOMAIN d \ {k} |-> d[x]]

\* ConnectionManager.__init__
EmptyDict == [x \in {} |-> {}]

\* ConnectionManager.connect, after websocket.accept() returned
connect(ac, websocket, symbol) ==
    LET had == IF symbol \in DOMAIN ac THEN ac[symbol] ELSE {}
    IN  DictSet(ac, symbol, had \cup {websocket})

\* ConnectionManager.disconnect
disconnect(ac, websocket, symbol) ==
    IF symbol \in DOMAIN ac
    THEN LET rest == ac[symbol] \ {websocket}
         IN  IF rest = {} THEN DictDel(ac, symbol) ELSE DictSet(ac, symbol, rest)
    ELSE ac

\* the subscribers of a symbol, none when it has no entry
Subscribers(ac, symbol) == IF symbol \in DOMAIN ac THEN ac[symbol] ELSE {}

\* the entry of a symbol: {its set}, or {} when the symbol has no entry
Entry(ac, symbol) == IF symbol \in DOMAIN ac THEN {ac[symbol]} ELSE {}

\* a broadcast that is not running
BcIdle ==
    [status |-> "idle", symbol |-> NoSymbol, cur |-> 0, remaining |-> {},
     used |-> 0, stale |-> FALSE, dirty |-> FALSE,
     disconnected |-> {}, attempted |-> {}, failed |-> {}]

\* a broadcast body without the try/except around the send
broadcast_send_unguarded(b, sendRaised) ==
    IF sendRaised
    THEN [b EXCEPT !.status = "raised", !.attempted = @ \cup {b.cur},
                   !.failed = @ \cup {b.cur}]
    ELSE [b EXCEPT !.attempted = @ \cup {b.cur}]

\* the try/except of the loop body of broadcast: the send to b.cur completed
\* (sendRaised tells how); attempted and failed are history, disconnected is
\* the local variable of the code
broadcast_send(b, sendRaised) ==
    [b EXCEPT !.attempted = @ \cup {b.cur},
              !.failed = IF sendRaised THEN @ \cup {b.cur} ELSE @,
              !.disconnected = IF sendRaised THEN @ \cup {b.cur} ELSE @]

\* the set iterator of broadcast is invalid: the set it walks changed size
\* since the iterator was made (CPython raises RuntimeError on next()); a set
\* whose entry disconnect deleted is empty, so its size differs from used >= 1
IteratorInvalid(ac, b) ==
    \/ b.stale
    \/ b.symbol \notin DOMAIN ac
    \/ Cardinality(ac[b.symbol]) # b.used

\* what a change of active_connections does to a broadcast suspended in a send
\* on the same symbol: deleting the entry orphans the iterated set; a change
\* that restores the size leaves an iterator whose position means nothing
\* (any subset of the set may still be yielded)
Disturbed(b, ac, ac2) ==
    IF b.status # "sending" \/ b.stale \/ Entry(ac, b.symbol) = Entry(ac2, b.symbol)
    THEN {b}
    ELSE IF b.symbol \notin DOMAIN ac2
    THEN {[b EXCEPT !.stale = TRUE, !.dirty = TRUE, !.remaining = {}]}
    ELSE IF Cardinality(ac2[b.symbol]) = b.used
    THEN {[b EXCEPT !.dirty = TRUE, !.remaining = r] : r \in SUBSET ac2[b.symbol]}
    ELSE {[b EXCEPT !.dirty = TRUE, !.remaining = {}]}

\* a caller awaits manager.connect(websocket, symbol)
Connect(c, s) ==
    /\ c \notin closed
    /\ active_connections' = connect(active_connections, c, s)
    /\ bc' \in Disturbed(bc, active_connections, active_connections')
    /\ UNCHANGED <<closed, liveVars, multiVars, batchVars, registryVars, marketVars>>

\* a caller runs manager.disconnect(websocket, symbol)
Disconnect(c, s) ==
    /\ active_connections' = disconnect(active_connections, c, s)
    /\ bc' \in Disturbed(bc, active_connections, active_connections')
    /\ UNCHANGED <<closed, liveVars, multiVars, batchVars, registryVars, marketVars>>

\* the peer of a socket goes away
TransportClose(c) ==
    /\ c \notin closed
    /\ closed' = closed \cup {c}
    /\ UNCHANGED <<active_connections, bc, live, lastFrame, multiVars, batchVars, registryVars, marketVars>>

\* broadcast(symbol, message) up to its first await
BroadcastStart(s) ==
    /\ bc.status = "idle"
    /\ IF s \notin DOMAIN active_connections \/ Subscribers(active_connections, s) = {}
       THEN bc' = [BcIdle EXCEPT !.status = "done", !.symbol = s]
       ELSE \E c \in active_connections[s] :
                bc' = [BcIdle EXCEPT !.status = "sending", !.symbol = s, !.cur = c,
                           !.remaining = active_connections[s] \ {c},
                           !.used = Cardinality(active_connections[s])]
    /\ UNCHANGED <<active_connections, closed, liveVars, multiVars, batchVars, registryVars, marketVars>>

\* broadcast from the completion of one send to the next await or to its end
BroadcastResume ==
    /\ bc.status = "sending"
    /\ LET b1 == broadcast_send(bc, bc.cur \in closed)
       IN  IF b1.status = "raised"
           THEN bc' = b1 /\ UNCHANGED active_connections
           ELSE IF IteratorInvalid(active_connections, b1)
           THEN bc' = [b1 EXCEPT !.status = "raised"] /\ UNCHANGED active_connections
           ELSE IF b1.remaining # {}
           THEN /\ \E c \in b1.remaining :
                       bc' = [b1 EXCEPT !.cur = c, !.remaining = @ \ {c}]
                /\ UNCHANGED active_connections
           ELSE /\ bc' = [b1 EXCEPT !.status = "done"]
                /\ active_connections' =
                       DictSet(active_connections, b1.symbol,
                               active_connections[b1.symbol] \ b1.disconnected)
    /\ UNCHANGED <<closed, liveVars, multiVars, batchVars, registryVars, marketVars>>

\* the caller of broadcast takes its outcome
BroadcastReturn ==
    /\ bc.status \in {"done", "raised"}
    /\ bc' = BcIdle
    /\ UNCHANGED <<active_connections, closed, liveVars, multiVars, batchVars, registryVars, marketVars>>

\* ------------------------------------------------- /live/{symbol} stream

\* the path parameters clients connect with
RawSymbols == {"btcusdt", "BTCUSDT", "ethusdt"}

\* symbols kept as the client wrote them
upper_as_sent(raw) == raw

\* str.upper on the path and query parameters and on the symbols of control
\* frames
upper(raw) ==
    CASE raw = "btcusdt" -> "BTCUSDT"
      [] raw = "ethusdt" -> "ETHUSDT"
      [] raw = "usdt" -> "USDT"
      [] raw = "eth" -> "ETH"
      [] OTHER -> raw

NoFrame == "none"

\* a handler that has not been entered
LiveIdle == [pc |-> "idle", symbol |-> NoSymbol]

\* what binance.get_ticker can do: return a ticker, return nothing, raise
TickerOutcomes == {"data", "empty", "raise"}

\* ConnectionManager.send_personal_message: the frame is delivered when the
\* transport is open; an exception of send_text is logged, never raised
send_personal_message(websocket, cl) ==
    [delivered |-> websocket \notin cl, raised |-> FALSE]

\* the sockets a frame of the handler of socket c goes to, were it broadcast
LiveRecipientsBroadcast(c, ac, symbol) == Subscribers(ac, symbol) \cup {c}

\* the sockets a frame of the handler of socket c goes to
LiveRecipients(c, ac, symbol) == {c}

\* the frame a handler suspended in a send is sending
PendingFrame(pc) ==
    CASE pc = "greet" -> "connection"
      [] pc = "send_update" -> "price_update"
      [] pc = "send_nodata" -> "error"
      [] pc = "send_error" -> "error"
      [] OTHER -> NoFrame

\* the positions in which the handler's streaming loop is alive
LivePolling == {"greet", "ticker", "send_update", "send_nodata", "send_error", "sleep"}

\* websocket_live_data up to the send of the confirmation: symbol.upper(),
\* manager.connect (accept, then registration)
LiveOpen(c, raw) ==
    /\ live[c].pc = "idle"
    /\ c \notin closed
    /\ active_connections' = connect(active_connections, c, upper(raw))
    /\ live' = [live EXCEPT ![c] = [pc |-> "greet", symbol |-> upper(raw)]]
    /\ UNCHANGED <<closed, bc, lastFrame, multiVars, batchVars, registryVars, marketVars>>

\* a send_personal_message of the handler completes; the handler goes on to
\* get_ticker (after the confirmation) or to the sleep (in the loop), or, were
\* an exception to leave send_personal_message, to its except clause
LiveSent(c) ==
    /\ live[c].pc \in {"greet", "send_update", "send_nodata", "send_error"}
    /\ LET r == send_personal_message(c, closed)
           to == LiveRecipients(c, active_connections, live[c].symbol)
       IN  /\ lastFrame' = [x \in Conns |->
                              IF x \in to /\ x \notin closed
                              THEN PendingFrame(live[c].pc) ELSE lastFrame[x]]
           /\ IF r.raised
              THEN /\ active_connections' =
                          disconnect(active_connections, c, live[c].symbol)
                   /\ live' = [live EXCEPT ![c].pc = "stopped"]
              ELSE /\ live' = [live EXCEPT ![c].pc =
                                  IF live[c].pc = "greet" THEN "ticker" ELSE "sleep"]
                   /\ UNCHANGED active_connections
    /\ UNCHANGED <<closed, bc, multiVars, batchVars, registryVars, marketVars>>

\* binance.get_ticker completes; the handler starts the send of the frame
LiveTicker(c, outcome) ==
    /\ live[c].pc = "ticker"
    /\ live' = [live EXCEPT ![c].pc =
                   CASE outcome = "data" -> "send_update"
                     [] outcome = "empty" -> "send_nodata"
                     [] OTHER -> "send_error"]
    /\ UNCHANGED <<active_connections, closed, bc, lastFrame, multiVars, batchVars, registryVars, marketVars>>

\* asyncio.sleep completes; the handler issues the next get_ticker
LiveWake(c) ==
    /\ live[c].pc = "sleep"
    /\ live' = [live EXCEPT ![c].pc = "ticker"]
    /\ UNCHANGED <<active_connections, closed, bc, lastFrame, multiVars, batchVars, registryVars, marketVars>>

\* the steps of the handler of socket c
LiveStep(c) ==
    \/ LiveSent(c)
    \/ \E o \in TickerOutcomes : LiveTicker(c, o)
    \/ LiveWake(c)

\* ---------------------------------------------------------- /multi stream
\* subscribed_symbols and data_sender are locals of one call of
\* websocket_multi_symbol: the calls share nothing, so one socket is modelled.

\* the symbol lists of the control frames clients send
ControlSymbolLists == {<< >>, <<"btcusdt">>, <<"ETHUSDT">>, <<"btcusdt", "ETHUSDT">>}

\* the text frames clients send: a subscription message, a JSON object with
\* another action, text that is not JSON, JSON that is not an object
ControlFrames ==
    [kind : {"subscribe", "unsubscribe"}, symbols : ControlSymbolLists]
        \cup [kind : {"bad_action", "bad_json", "not_object"}, symbols : {<< >>}]

\* the upper-cased symbols of a list
UpperSet(symbols) == {upper(symbols[i]) : i \in DOMAIN symbols}

\* the orders list(a set) can give
Perms(S) ==
    {q \in [1..Cardinality(S) -> S] : \A i, j \in DOMAIN q : i # j => q[i] # q[j]}

\* the frames of the /multi stream, with the symbols they name
WireFrame(type, symbols) == [type |-> type, symbols |-> symbols]

NoWire == WireFrame("none", {})
MultiIdle == [pc |-> "idle", pending |-> NoWire]
MultiEnded == [pc |-> "ended", pending |-> NoWire]

\* data_sender: its position, the symbol it works on and the rest of its
\* snapshot; snap, done, failed and idle are history of its current cycle (the
\* snapshot, the symbols get_ticker was called for, in order, those whose call
\* gave nothing, and whether the cycle found no subscription)
SenderNone ==
    [pc |-> "none", cur |-> NoSymbol, rest |-> << >>,
     snap |-> {}, done |-> << >>, failed |-> {}, idle |-> FALSE]

\* no control frame
NoControl == [kind |-> "none", symbols |-> << >>]

\* history of the control frames: fresh and dropped (symbols subscribed by the
\* last frame, and of those the ones the next frame unsubscribed), the last
\* frame received, whether an unsubscribe emptied the set, and the symbols
\* whose "unsubscribed" acknowledgement went out and that were not subscribed
\* again
NoQuick ==
    [fresh |-> {}, dropped |-> {}, frame |-> NoControl, emptied |-> FALSE,
     left |-> {}]

\* the sender goes on with the next symbol of its snapshot, or to its sleep
SenderAdvance(d) ==
    IF d.rest = << >>
    THEN [d EXCEPT !.pc = "sleep", !.cur = NoSymbol]
    ELSE [d EXCEPT !.pc = "ticker", !.cur = Head(d.rest), !.rest = Tail(d.rest),
                   !.done = Append(@, Head(d.rest))]

\* a cycle that ends at the first get_ticker that gives nothing
fetch_failed_ends_cycle(d) ==
    [d EXCEPT !.pc = "sleep", !.cur = NoSymbol, !.rest = << >>,
              !.failed = @ \cup {d.cur}]

\* get_ticker returned nothing ("if ticker_data" is false) or raised ("except
\* Exception: continue"): the for loop goes on with the next symbol
fetch_failed(d) == SenderAdvance([d EXCEPT !.failed = @ \cup {d.cur}])

\* a cancel that does not reach the task
cancel_ignored(d) == d

\* data_task.cancel(): CancelledError is thrown into the await the task is
\* suspended in; "except Exception" does not catch it
cancel(d) == [SenderNone EXCEPT !.pc = "cancelled"]

\* websocket.accept() and the start of the send of the confirmation
MultiOpen ==
    /\ mh.pc = "idle"
    /\ ~mclosed
    /\ mh' = [pc |-> "greet", pending |-> WireFrame("connection", {})]
    /\ UNCHANGED <<mgrVars, liveVars, batchVars, registryVars, marketVars, subscribed_symbols, ds, mclosed, mwire, quick>>

\* a send of the handler completes. After the confirmation data_sender is
\* created; then the handler waits in receive_text. A send that raises leaves
\* the loop: the finally clause cancels data_sender and the handler returns
MultiSent ==
    /\ mh.pc \in {"greet", "ack"}
    /\ IF mclosed
       THEN /\ mh' = MultiEnded
            /\ ds' = IF mh.pc = "ack" THEN cancel(ds) ELSE ds
            /\ UNCHANGED mwire
       ELSE /\ mh' = [pc |-> "receive", pending |-> NoWire]
            /\ ds' = IF mh.pc = "greet" THEN [SenderNone EXCEPT !.pc = "start"] ELSE ds
            /\ mwire' = mh.pending
    /\ quick' = IF ~mclosed /\ mh.pending.type = "unsubscribed"
                THEN [quick EXCEPT !.left = @ \cup UpperSet(quick.frame.symbols)]
                ELSE quick
    /\ UNCHANGED <<mgrVars, liveVars, batchVars, registryVars, marketVars, subscribed_symbols, mclosed>>

\* receive_text returns a frame: the handler runs to the send of its answer,
\* or, when the frame makes it raise (message.get on JSON that is no object),
\* through the finally clause to its end
MultiReceive(f) ==
    /\ mh.pc = "receive"
    /\ ~mclosed
    /\ IF f.kind = "subscribe"
       THEN /\ subscribed_symbols' = subscribed_symbols \cup UpperSet(f.symbols)
            /\ quick' = [fresh |-> UpperSet(f.symbols) \ subscribed_symbols,
                         dropped |-> quick.dropped \ UpperSet(f.symbols),
                         frame |-> f,
                         emptied |-> quick.emptied /\ subscribed_symbols' = {},
                         left |-> quick.left \ UpperSet(f.symbols)]
            /\ mh' = [pc |-> "ack",
                      pending |-> WireFrame("subscribed", subscribed_symbols')]
            /\ UNCHANGED ds
       ELSE IF f.kind = "unsubscribe"
       THEN /\ subscribed_symbols' = subscribed_symbols \ UpperSet(f.symbols)
            /\ quick' = [fresh |-> {},
                         dropped |-> quick.dropped
                                       \cup (quick.fresh \cap UpperSet(f.symbols)),
                         frame |-> f,
                         emptied |-> /\ subscribed_symbols' = {}
                                     /\ (subscribed_symbols # {} \/ quick.emptied),
                         left |-> quick.left]
            /\ mh' = [pc |-> "ack",
                      pending |-> WireFrame("unsubscribed", subscribed_symbols')]
            /\ UNCHANGED ds
       ELSE IF f.kind \in {"bad_action", "bad_json"}
       THEN /\ mh' = [pc |-> "ack", pending |-> WireFrame("error", {})]
            /\ quick' = [quick EXCEPT !.fresh = {}, !.frame = f]
            /\ UNCHANGED <<subscribed_symbols, ds>>
       ELSE /\ mh' = MultiEnded
            /\ ds' = cancel(ds)
            /\ quick' = [quick EXCEPT !.fresh = {}, !.frame = f]
            /\ UNCHANGED subscribed_symbols
    /\ UNCHANGED <<mgrVars, liveVars, batchVars, registryVars, marketVars, mclosed, mwire>>

\* receive_text raises WebSocketDisconnect: finally cancels data_sender
MultiDisconnected ==
    /\ mh.pc = "receive"
    /\ mclosed
    /\ mh' = MultiEnded
    /\ ds' = cancel(ds)
    /\ UNCHANGED <<mgrVars, liveVars, batchVars, registryVars, marketVars, subscribed_symbols, mclosed, mwire, quick>>

\* the client of the /multi socket goes away
MultiTransportClose ==
    /\ ~mclosed
    /\ mh.pc # "idle"
    /\ mclosed' = TRUE
    /\ UNCHANGED <<mgrVars, liveVars, batchVars, registryVars, marketVars, mh, subscribed_symbols, ds, mwire, quick>>

\* data_sender starts, or its sleep ends: with subscriptions it takes the
\* snapshot list(subscribed_symbols) and issues the first get_ticker,
\* without it sleeps again
SenderWake ==
    /\ ds.pc \in {"start", "sleep"}
    /\ IF subscribed_symbols = {}
       THEN ds' = [SenderNone EXCEPT !.pc = "sleep", !.idle = TRUE]
       ELSE \E q \in Perms(subscribed_symbols) :
                ds' = [SenderNone EXCEPT !.pc = "ticker", !.cur = Head(q),
                           !.rest = Tail(q), !.snap = subscribed_symbols,
                           !.done = <<Head(q)>>]
    /\ UNCHANGED <<mgrVars, liveVars, batchVars, registryVars, marketVars, mh, subscribed_symbols, mclosed, mwire, quick>>

\* get_ticker completes: with a ticker the sender starts the send of the
\* price_update; without one, or when it raised, it goes on
SenderTicker(outcome) ==
    /\ ds.pc = "ticker"
    /\ ds' = IF outcome = "data" THEN [ds EXCEPT !.pc = "send"] ELSE fetch_failed(ds)
    /\ UNCHANGED <<mgrVars, liveVars, batchVars, registryVars, marketVars, mh, subscribed_symbols, mclosed, mwire, quick>>

\* the send of a price_update completes; an exception of send_text is caught
\* by the except clause of the loop body
SenderSent ==
    /\ ds.pc = "send"
    /\ mwire' = IF mclosed THEN mwire ELSE WireFrame("price_update", {ds.cur})
    /\ ds' = SenderAdvance(ds)
    /\ UNCHANGED <<mgrVars, liveVars, batchVars, registryVars, marketVars, mh, subscribed_symbols, mclosed, quick>>

\* ------------------------------------------------- batch HTTP endpoints

\* len(symbols) > 10 in find_best_prices
BestPricesMax == 10

\* len(symbols) > 5 in find_arbitrage_opportunities
ArbitrageMax == 5

\* len(symbols) > 5 in get_trading_recommendations
RecommendationsMax == 5

Endpoints == {"best-prices", "arbitrage", "recommendations"}

\* the cap on the symbol list of an endpoint
Cap(endpoint) ==
    CASE endpoint = "best-prices" -> BestPricesMax
      [] endpoint = "arbitrage" -> ArbitrageMax
      [] OTHER -> RecommendationsMax

\* a symbol list of n entries
Fill(n) == [i \in 1..n |-> "BTCUSDT"]

\* the symbol lists of the request bodies: none, short ones in both orders,
\* and lists at each cap and one above it
BodySymbolLists ==
    {<< >>, <<"BTCUSDT">>, <<"BTCUSDT", "ETHUSDT">>, <<"ETHUSDT", "BTCUSDT">>}
        \cup {Fill(ArbitrageMax), Fill(ArbitrageMax + 1),
              Fill(BestPricesMax), Fill(BestPricesMax + 1)}

\* the request bodies: a dict without "symbols", or with a symbol list
Bodies ==
    {[has |-> FALSE, symbols |-> << >>]}
        \cup {[has |-> TRUE, symbols |-> l] : l \in BodySymbolLists}

\* a request-shape check that does not test the length
validate_no_cap(body, endpoint) ==
    IF ~body.has \/ body.symbols = << >> THEN 400 ELSE 0

\* the two checks at the head of each handler: the status of the
\* HTTPException they raise, 0 when they raise none
validate(body, endpoint) ==
    IF ~body.has \/ body.symbols = << >>
    THEN 400
    ELSE IF Len(body.symbols) > Cap(endpoint) THEN 400 ELSE 0

\* an except clause that returns an error body in place of raising, as the
\* one of get_websocket_stats does: the answer is sent with status 200
except_clause_returns_error_body(raised) == 200

\* "except Exception as e: raise HTTPException(status_code=500, ...)" around
\* the whole body of each handler: HTTPException is an Exception, so the
\* status of whatever was raised inside is replaced
except_clause(raised) == 500

\* the registered exchanges the aggregator queries, in registry priority order
ExchangeOrder == <<"binance", "kucoin", "bybit">>

Exchanges == {ExchangeOrder[i] : i \in DOMAIN ExchangeOrder}

\* the prices an exchange can report for a symbol
PriceLevels == {1000, 1001, 1003}

\* the rank of an exchange in the registry (lower = preferred)
Priority(name) == CHOOSE i \in DOMAIN ExchangeOrder : ExchangeOrder[i] = name

\* what one adapter contributes for one symbol: an "unavailable" marker (an
\* entry without a price) when its call failed or timed out, or a ticker,
\* with a price of 0 or a price
AdapterOutcomes ==
    {[kind |-> "unavailable", price |-> 0]}
        \cup {[kind |-> "ticker", price |-> q] : q \in {0} \cup PriceLevels}

\* an entry that reports a failed call as a ticker without a price
ExchangeEntryZeroPrice(name, outcome) ==
    [name |-> name, kind |-> "ticker", price |-> outcome.price]

\* the entry of an exchange in the exchanges dict of a symbol
ExchangeEntry(name, outcome) ==
    [name |-> name, kind |-> outcome.kind, price |-> outcome.price]

RECURSIVE ExchangesDictOmitFailed(_, _, _)
\* an exchanges dict that leaves out the exchanges whose call failed
ExchangesDictOmitFailed(market, symbol, i) ==
    IF i > Len(ExchangeOrder)
    THEN << >>
    ELSE LET o == market[<<ExchangeOrder[i], symbol>>]
             rest == ExchangesDictOmitFailed(market, symbol, i + 1)
         IN  IF o.kind = "unavailable" THEN rest
             ELSE <<ExchangeEntry(ExchangeOrder[i], o)>> \o rest

RECURSIVE ExchangesDict(_, _, _)
\* the exchanges dict of a symbol, as the sequence of its items in insertion
\* order: one entry per registered exchange, in registry priority order, from
\* exchange i on
ExchangesDict(market, symbol, i) ==
    IF i > Len(ExchangeOrder)
    THEN << >>
    ELSE <<ExchangeEntry(ExchangeOrder[i], market[<<ExchangeOrder[i], symbol>>])>>
             \o ExchangesDict(market, symbol, i + 1)

\* the result of market_agent.find_best_prices: one entry per requested
\* symbol, in the order of the request
find_best_prices_result(symbols, market) ==
    [i \in DOMAIN symbols |->
        [symbol |-> symbols[i], exchanges |-> ExchangesDict(market, symbols[i], 1)]]

\* the symbols of a list
SymbolsOf(symbols) == {symbols[i] : i \in DOMAIN symbols}

\* what the adapters can answer for the symbols of a request
Markets(symbols) == [Exchanges \X SymbolsOf(symbols) -> AdapterOutcomes]

\* the filter of the prices list: data.get("price") and data["price"] > 0
\* (an entry without a price gives None)
usable(data) == data.kind = "ticker" /\ data.price # 0 /\ data.price > 0

RECURSIVE Filter(_)
\* prices = [(name, data["price"]) for name, data in exchanges.items() if ...]
Filter(exchanges) ==
    IF exchanges = << >>
    THEN << >>
    ELSE LET rest == Filter(Tail(exchanges))
         IN  IF usable(Head(exchanges))
             THEN <<[name |-> Head(exchanges).name, price |-> Head(exchanges).price]>> \o rest
             ELSE rest

\* the number of leading entries of a sorted list whose price is <= q
CountLeq(sorted, q) == Cardinality({i \in DOMAIN sorted : sorted[i].price <= q})

RECURSIVE SortByPrice(_)
\* prices.sort(key=lambda x: x[1]): stable, ascending
SortByPrice(prices) ==
    IF prices = << >>
    THEN << >>
    ELSE LET n == Len(prices)
             init == SortByPrice(SubSeq(prices, 1, n - 1))
             x == prices[n]
             k == CountLeq(init, x.price)
         IN  SubSeq(init, 1, k) \o <<x>> \o SubSeq(init, k + 1, Len(init))

\* n / d rounded to the nearest integer, halves to the even one
RoundDiv(n, d) ==
    LET q == n \div d
        r == n % d
    IN  IF 2 * r < d THEN q
        ELSE IF 2 * r > d THEN q + 1
        ELSE IF q % 2 = 0 THEN q ELSE q + 1

\* the digits round(spread_percent, 4) keeps, as a power of ten
SpreadScale == 10000

\* round(spread_percent, 4) with two digits kept
round4_two_digits(max_price, min_price) ==
    RoundDiv((max_price - min_price) * 100 * 100, min_price) * 100

\* round(((max_price - min_price) / min_price) * 100, 4), in units of 0.0001
round4(max_price, min_price) ==
    RoundDiv((max_price - min_price) * 100 * SpreadScale, min_price)

\* the threshold test with >= in place of >
above_threshold_or_equal(max_price, min_price) ==
    (max_price - min_price) * 100 * 10 >= min_price

\* spread_percent > 0.1, for spread_percent = (max - min) / min * 100
above_threshold(max_price, min_price) ==
    (max_price - min_price) * 100 * 10 > min_price

\* the body of the loop over price_data["results"]: the opportunities one
\* symbol_data adds to arbitrage_opportunities (one or none)
analyse(symbol_data) ==
    LET exchanges == symbol_data.exchanges
        prices == SortByPrice(Filter(exchanges))
    IN  IF Len(exchanges) < 2 \/ Len(prices) < 2
        THEN << >>
        ELSE LET lo == prices[1]
                 hi == prices[Len(prices)]
             IN  IF above_threshold(hi.price, lo.price)
                 THEN <<[symbol |-> symbol_data.symbol,
                         buy_exchange |-> lo.name,
                         sell_exchange |-> hi.name,
                         buy_price |-> lo.price,
                         sell_price |-> hi.price,
                         spread_percent |-> round4(hi.price, lo.price),
                         potential_profit_per_unit |-> hi.price - lo.price]>>
                 ELSE << >>

RECURSIVE Accumulated(_)
\* the exchanges of all the results of a list, one after the other
Accumulated(results) ==
    IF results = << >>
    THEN << >>
    ELSE Accumulated(SubSeq(results, 1, Len(results) - 1))
             \o results[Len(results)].exchanges

RECURSIVE OpportunitiesLeaky(_)
\* the loop with a prices list that is not emptied between two symbols
OpportunitiesLeaky(results) ==
    IF results = << >>
    THEN << >>
    ELSE OpportunitiesLeaky(SubSeq(results, 1, Len(results) - 1))
             \o analyse([symbol |-> results[Len(results)].symbol,
                         exchanges |-> Accumulated(results)])

RECURSIVE OpportunitiesStopAtMarker(_)
\* the loop left at the first symbol that has an entry without a usable price
OpportunitiesStopAtMarker(results) ==
    IF results = << >>
    THEN << >>
    ELSE IF \E k \in DOMAIN Head(results).exchanges : ~usable(Head(results).exchanges[k])
         THEN << >>
         ELSE analyse(Head(results)) \o OpportunitiesStopAtMarker(Tail(results))

RECURSIVE Opportunities(_)
\* arbitrage_opportunities after the loop
Opportunities(results) ==
    IF results = << >>
    THEN << >>
    ELSE Opportunities(SubSeq(results, 1, Len(results) - 1))
             \o analyse(results[Len(results)])

\* the number of entries of a list whose spread_percent is >= q
CountGeq(sorted, q) == Cardinality({i \in DOMAIN sorted : sorted[i].spread_percent >= q})

RECURSIVE SortBySpread(_)
\* arbitrage_opportunities.sort(key=spread_percent, reverse=True): stable,
\* descending (equal spreads keep the order they were appended in)
SortBySpread(opps) ==
    IF opps = << >>
    THEN << >>
    ELSE LET n == Len(opps)
             init == SortBySpread(SubSeq(opps, 1, n - 1))
             x == opps[n]
             k == CountGeq(init, x.spread_percent)
         IN  SubSeq(init, 1, k) \o <<x>> \o SubSeq(init, k + 1, Len(init))

HttpIdle == [pc |-> "idle", endpoint |-> "-", handler |-> "-",
             body |-> [has |-> FALSE, symbols |-> << >>], calls |-> 0]
NoPriceData == << >>
NoResponse == [status |-> 0, keys |-> {}, opportunities |-> << >>, results |-> << >>]
NoAnswers == << >>

\* a handler that hands on fewer results: those with a priced entry
best_prices_answer_priced_only(results) ==
    SelectSeq(results, LAMBDA r : Filter(r.exchanges) # << >>)

\* "return results" of find_best_prices: what the agent returned, as it is
best_prices_answer(results) == results

\* the answer of a handler that raised
Failure(status) ==
    [status |-> status, keys |-> {"detail"}, opportunities |-> << >>, results |-> << >>]

\* the handler of a batch endpoint
PostHandler(endpoint) ==
    CASE endpoint = "best-prices" -> "find_best_prices"
      [] endpoint = "arbitrage" -> "find_arbitrage_opportunities"
      [] OTHER -> "get_trading_recommendations"

\* the top-level keys of the body a batch handler returns (the dicts of the
\* agent and of the advisor are passed on; their keys are not modelled)
ReturnedKeys(endpoint) ==
    IF endpoint = "arbitrage"
    THEN {"arbitrage_opportunities", "total_opportunities", "analysis_timestamp", "note"}
    ELSE {}

\* a batch handler from its entry to its first await: the checks of the body,
\* then either the HTTPException through the except clause, or the call of
\* market_agent.find_best_prices (of the advisor, for recommendations)
HttpRequest(endpoint, body) ==
    /\ http.pc = "idle"
    /\ LET raised == validate(body, endpoint)
       IN  IF raised # 0
           THEN /\ http' = [pc |-> "responded", endpoint |-> endpoint,
                            handler |-> PostHandler(endpoint), body |-> body, calls |-> 0]
                /\ response' = Failure(except_clause(raised))
           ELSE /\ http' = [pc |-> "awaiting", endpoint |-> endpoint,
                            handler |-> PostHandler(endpoint), body |-> body, calls |-> 1]
                /\ response' = NoResponse
    /\ price_data' = NoPriceData
    /\ answers' = NoAnswers
    /\ UNCHANGED <<mgrVars, liveVars, multiVars, registryVars, marketVars>>

\* the awaited call returns: the handler builds its answer (the advisor's
\* recommendations are passed on as they are and are not modelled)
HttpReturn ==
    /\ http.pc = "awaiting"
    /\ \E market \in Markets(IF http.endpoint = "recommendations"
                              THEN << >> ELSE http.body.symbols) :
          /\ answers' = market
          /\ price_data' = IF http.endpoint = "recommendations"
                           THEN NoPriceData
                           ELSE find_best_prices_result(http.body.symbols, market)
          /\ response' =
                IF http.endpoint = "arbitrage"
                THEN [status |-> 200, keys |-> ReturnedKeys(http.endpoint),
                      opportunities |-> SortBySpread(Opportunities(price_data')),
                      results |-> << >>]
                ELSE [status |-> 200, keys |-> ReturnedKeys(http.endpoint),
                      opportunities |-> << >>,
                      results |-> best_prices_answer(price_data')]
    /\ http' = [http EXCEPT !.pc = "responded"]
    /\ UNCHANGED <<mgrVars, liveVars, multiVars, registryVars, marketVars>>

\* the awaited call raises: the except clause answers
HttpRaise ==
    /\ http.pc = "awaiting"
    /\ response' = Failure(except_clause(500))
    /\ http' = [http EXCEPT !.pc = "responded"]
    /\ UNCHANGED <<mgrVars, liveVars, multiVars, registryVars, marketVars, price_data, answers>>

\* the answer is sent; the next request can come
HttpDone ==
    /\ http.pc = "responded"
    /\ http' = HttpIdle
    /\ price_data' = NoPriceData
    /\ response' = NoResponse
    /\ answers' = NoAnswers
    /\ UNCHANGED <<mgrVars, liveVars, multiVars, registryVars, marketVars>>

\* ------------------------------------------------------------ GET routing

\* create_app: the routers it includes, with their prefixes, in order
IncludedRouters ==
    <<[router |-> "health", prefix |-> "/api"],
      [router |-> "market_data", prefix |-> "/api/market"],
      [router |-> "predictions", prefix |-> "/api/analysis"],
      [router |-> "ai_agent", prefix |-> "/api/ai"],
      [router |-> "multi_exchange", prefix |-> "/api/exchanges"],
      [router |-> "market_advisor", prefix |-> "/api/advisor"],
      [router |-> "websockets", prefix |-> "/api/ws"]>>

\* the GET routes of each router module that have no path parameter
GetRoutes(router) ==
    CASE router = "health" -> {[path |-> "/health", handler |-> "health_check"]}
      [] router = "market_data" ->
            {[path |-> "/symbols", handler |-> "get_active_symbols"],
             [path |-> "/coins", handler |-> "get_coins_with_trading_pairs"],
             [path |-> "/volatility/comparison", handler |-> "compare_volatility"]}
      [] router = "multi_exchange" ->
            {[path |-> "/health", handler |-> "get_exchange_health"],
             [path |-> "/coverage", handler |-> "get_exchange_coverage"],
             [path |-> "/summary", handler |-> "get_exchange_summary"]}
      [] router = "market_advisor" ->
            {[path |-> "/market-overview", handler |-> "get_market_overview"]}
      [] router = "websockets" ->
            {[path |-> "/connections", handler |-> "get_websocket_stats"]}
      [] router = "pairs" -> {[path |-> "/", handler |-> "list_pairs"]}
      [] OTHER -> {}

\* the routes the application serves: those of the routers included, under
\* their prefixes, and the root endpoint
route_table(included) ==
    UNION {{[path |-> included[i].prefix \o r.path, handler |-> r.handler] :
                r \in GetRoutes(included[i].router)} : i \in DOMAIN included}
        \cup {[path |-> "/", handler |-> "root"]}

\* the handler a GET of the path is routed to: "-" when no route matches,
\* "redirect" when only the path with the trailing slash added or taken off
\* matches (redirect_slashes)
get_route(path) ==
    LET table == route_table(IncludedRouters)
        hit == {r \in table : r.path = path}
        near == {r \in table : path # "/" /\ (r.path \o "/" = path \/ path \o "/" = r.path)}
    IN  IF hit # {} THEN (CHOOSE r \in hit : TRUE).handler
        ELSE IF near # {} THEN "redirect"
        ELSE "-"

\* the paths of the GET requests
GetPaths ==
    {"/pairs/", "/pairs", "/", "/api/health", "/api/health/", "/api/ws/connections",
     "/api/exchanges/health"}

\* how the calls a handler awaits end
HandlerOutcomes == {"ok", "raise"}

\* the answer to a GET: 404 and 307 come from the router; a handler answers
\* 200 with the dict it returns, or 500 when the exception of an awaited call
\* leaves it (health_check, root and get_websocket_stats await nothing;
\* get_exchange_health raises HTTPException(500) itself)
get_answer(handler, outcome) ==
    CASE handler = "-" -> [status |-> 404, keys |-> {"detail"}]
      [] handler = "redirect" -> [status |-> 307, keys |-> {}]
      [] handler = "root" ->
            [status |-> 200,
             keys |-> {"name", "version", "status", "description", "features",
                       "endpoints", "supported_exchanges"}]
      [] handler = "health_check" ->
            [status |-> 200,
             keys |-> {"name", "status", "version", "timestamp", "environment"}]
      [] handler = "get_websocket_stats" ->
            [status |-> 200,
             keys |-> {"total_symbols", "total_connections", "connections_by_symbol",
                       "timestamp"}]
      [] handler = "list_pairs" ->
            IF outcome = "ok" THEN [status |-> 200, keys |-> {"pairs"}]
            ELSE [status |-> 500, keys |-> {}]
      [] OTHER ->
            IF outcome = "ok" THEN [status |-> 200, keys |-> {}]
            ELSE [status |-> 500, keys |-> {"detail"}]

\* a GET request, from the router to the answer of the handler
HttpGet(path, outcome) ==
    /\ http.pc = "idle"
    /\ http' = [HttpIdle EXCEPT !.pc = "responded", !.endpoint = path,
                                !.handler = get_route(path)]
    /\ response' = [NoResponse EXCEPT
                        !.status = get_answer(get_route(path), outcome).status,
                        !.keys = get_answer(get_route(path), outcome).keys]
    /\ price_data' = NoPriceData
    /\ answers' = NoAnswers
    /\ UNCHANGED <<mgrVars, liveVars, multiVars, registryVars, marketVars>>

\* -------------------------------------------------------- Exchange Registry

\* the most recordResult calls of a run
MaxResults == 6

\* N: the consecutive failures after which an adapter is unhealthy
FailureThreshold == 3

\* an adapter as created at process start
HealthyAdapter == [status |-> "healthy", failures |-> 0]

\* recordResult with a failure count that a success leaves as it is
recordResult_no_reset(h, success) ==
    IF success
    THEN [status |-> "healthy", failures |-> h.failures]
    ELSE [status |-> IF h.failures + 1 >= FailureThreshold THEN "unhealthy" ELSE h.status,
          failures |-> h.failures + 1]

\* recordResult(adapterName, success, latencyMs) on the health state h of the
\* adapter: a success makes it healthy and ends the run of failures, a
\* failure lengthens the run, and a run of N makes it unhealthy (the latency
\* and the time of the call are stored and take no part in the transitions)
recordResult(h, success) ==
    IF success
    THEN [status |-> "healthy", failures |-> 0]
    ELSE [status |-> IF h.failures + 1 >= FailureThreshold THEN "unhealthy" ELSE h.status,
          failures |-> h.failures + 1]

\* the registry records the result of one adapter call
RecordResult(adapter, success) ==
    /\ Len(history) < MaxResults
    /\ health' = [health EXCEPT ![adapter] = recordResult(health[adapter], success)]
    /\ history' = Append(history, [adapter |-> adapter, success |-> success])
    /\ UNCHANGED <<mgrVars, liveVars, multiVars, batchVars, marketVars>>

RECURSIVE SumLen(_, _)
\* sum(len(connections) for connections in active_connections.values()),
\* over the entries of the keys S
SumLen(ac, S) ==
    IF S = {}
    THEN 0
    ELSE LET s == CHOOSE x \in S : TRUE
         IN  Cardinality(ac[s]) + SumLen(ac, S \ {s})

\* GET /connections
stats(ac) ==
    [total_symbols |-> Cardinality(DOMAIN ac),
     total_connections |-> SumLen(ac, DOMAIN ac),
     connections_by_symbol |-> [s \in DOMAIN ac |-> Cardinality(ac[s])]]

\* ------------------------------------- market data and prediction GETs
\* The handlers share SYMBOLS_CACHE and nothing else. get_active_symbols has
\* no await, and the awaits of the other handlers come after their use of the
\* cache, so a request is one step.

\* limit: int = 500 of get_active_symbols
SymbolsLimit == 500

\* len(closes) < 50 in predict_price
MinDataPoints == 50

\* get_allowed_intervals()
AllowedIntervals == {"1h", "2h", "4h", "6h", "8h", "12h", "1d", "3d", "1w", "1M"}

\* the interval parameters clients send
Intervals == {"1h", "5m"}

\* the symbol lists binance.fetch_symbols() returns
Listings == {<< >>, <<"BTCUSDT", "ETHUSDT">>, <<"ETHBTC", "BTCUSDT", "ETHUSDT">>}

\* binance.fetch_symbols(): a list, or an exception
FetchOutcomes ==
    [raised : {FALSE}, symbols : Listings] \cup {[raised |-> TRUE, symbols |-> << >>]}

\* binance.fetch_ohlcv(): a list of candles (its length), or an exception
OhlcvOutcomes ==
    [raised : {FALSE}, points : {0, MinDataPoints - 1, MinDataPoints}]
        \cup {[raised |-> TRUE, points |-> 0]}

\* float(ticker_map.get(s, {}).get('quoteVolume', 0)) over the tickers
\* binance.fetch_tickers() returns: ETHBTC has no ticker. The volumes are
\* held fixed, so that an order can be judged against the volumes every
\* request would see
QuoteVolume(s) ==
    CASE s = "BTCUSDT" -> 300
      [] s = "ETHUSDT" -> 200
      [] OTHER -> 0

\* the order of str on the symbols
name_key(s) ==
    CASE s = "BTCUSDT" -> 1
      [] s = "ETHBTC" -> 2
      [] OTHER -> 3

\* s.endswith(suffix)
endswith(s, suffix) ==
    CASE suffix = "USDT" -> s \in {"BTCUSDT", "ETHUSDT"}
      [] suffix = "BTC" -> s = "ETHBTC"
      [] OTHER -> FALSE

\* sub in s
contains(sub, s) ==
    CASE sub = "ETH" -> s \in {"ETHUSDT", "ETHBTC"}
      [] sub = "BTC" -> s \in {"BTCUSDT", "ETHBTC"}
      [] sub = "USDT" -> s \in {"BTCUSDT", "ETHUSDT"}
      [] OTHER -> FALSE

\* x in a list
InList(x, list) == \E i \in DOMAIN list : list[i] = x

\* list[:n]
Take(list, n) == SubSeq(list, 1, IF Len(list) < n THEN Len(list) ELSE n)

\* sorted(symbols, key=..., reverse=reverse), by quote volume or by name:
\* stable, also when reversed
sorted(symbols, by, reverse) ==
    LET n == Len(symbols)
        key(s) == IF by = "volume" THEN QuoteVolume(s) ELSE name_key(s)
        before(i, j) ==
            \/ IF reverse THEN key(symbols[i]) > key(symbols[j])
                          ELSE key(symbols[i]) < key(symbols[j])
            \/ key(symbols[i]) = key(symbols[j]) /\ i < j
        p == CHOOSE p \in [1..n -> 1..n] :
                 /\ \A i, j \in 1..n : i # j => p[i] # p[j]
                 /\ \A i, j \in 1..n : i < j => before(p[i], p[j])
    IN  [i \in 1..n |-> symbols[p[i]]]

\* SYMBOLS_CACHE when the process starts
SymbolsCacheEmpty == [k \in {} |-> << >>]

\* not SYMBOLS_CACHE.get(key): the key is absent, or bound to an empty list
cache_miss(cache, key) == key \notin DOMAIN cache \/ cache[key] = << >>

\* cache_key = "symbols"; if not SYMBOLS_CACHE.get(cache_key):
\* SYMBOLS_CACHE[cache_key] = binance.fetch_symbols()
cached_symbols(cache, fetch) ==
    [cache |-> IF cache_miss(cache, "symbols") /\ ~fetch.raised
               THEN DictSet(cache, "symbols", fetch.symbols)
               ELSE cache,
     fetched |-> cache_miss(cache, "symbols"),
     raised |-> cache_miss(cache, "symbols") /\ fetch.raised]

\* the outcomes to draw for fetch_symbols: none when the cache answers
FetchCalls(cache) ==
    IF cache_miss(cache, "symbols")
    THEN FetchOutcomes
    ELSE {[raised |-> FALSE, symbols |-> << >>]}

\* the parameters of a request ("" is a parameter left out)
NoRequest ==
    [sort_by |-> "", descending |-> TRUE, quote_asset |-> "", search |-> "",
     symbol |-> "", interval |-> ""]

\* the requests of GET symbols
SymbolsRequests ==
    [sort_by : {"", "volume", "name"}, descending : BOOLEAN,
     quote_asset : {"", "usdt"}, search : {"", "eth"},
     symbol : {""}, interval : {""}]

\* the requests of GET historical/{symbol} and GET predict/{symbol}
CandleRequests ==
    [sort_by : {""}, descending : {TRUE}, quote_asset : {""}, search : {""},
     symbol : {"btcusdt", "ETHBTC"}, interval : Intervals]

\* the last request served and its answer; fetched, ohlcv and points are
\* history (fetch_symbols was called, the number of fetch_ohlcv calls, the
\* number of candles returned, -1 when no call returned)
NoGet ==
    [endpoint |-> "-", request |-> NoRequest, status |-> 0, symbols |-> << >>,
     fetched |-> FALSE, ohlcv |-> 0, points |-> -1]

\* get_active_symbols: the cache after the request, the status and the list
get_active_symbols(cache, q, fetch, tickers_raised) ==
    LET c == cached_symbols(cache, fetch)
        QuoteOk(s) == endswith(s, upper(q.quote_asset))
        SearchOk(s) == contains(upper(q.search), s)
        all == c.cache["symbols"]
        f1 == IF q.quote_asset # "" THEN SelectSeq(all, QuoteOk) ELSE all
        f2 == IF q.search # "" THEN SelectSeq(f1, SearchOk) ELSE f1
        sort_cache_key ==
            "symbols_sorted_volume_" \o q.quote_asset \o "_" \o q.search
        sort_miss == cache_miss(c.cache, sort_cache_key)
        by_volume == IF sort_miss
                     THEN sorted(f2, "volume", q.descending)
                     ELSE c.cache[sort_cache_key]
        symbols == CASE q.sort_by = "volume" -> by_volume
                     [] q.sort_by = "name" -> sorted(f2, "name", q.descending)
                     [] OTHER -> f2
    IN  IF c.raised \/ (q.sort_by = "volume" /\ sort_miss /\ tickers_raised)
        THEN [cache |-> c.cache, status |-> 503, symbols |-> << >>,
              fetched |-> c.fetched]
        ELSE [cache |-> IF q.sort_by = "volume" /\ sort_miss
                        THEN DictSet(c.cache, sort_cache_key, by_volume)
                        ELSE c.cache,
              status |-> 200, symbols |-> Take(symbols, SymbolsLimit),
              fetched |-> c.fetched]

\* get_historical_data (limit left at its default): its HTTPExceptions are
\* re-raised by "except HTTPException: raise", other exceptions become 500
get_historical_data(cache, q, fetch, candles) ==
    LET c == cached_symbols(cache, fetch)
        called == /\ ~c.raised
                  /\ InList(upper(q.symbol), c.cache["symbols"])
                  /\ q.interval \in AllowedIntervals
    IN  [cache |-> c.cache,
         status |-> IF c.raised THEN 500
                    ELSE IF ~InList(upper(q.symbol), c.cache["symbols"]) THEN 404
                    ELSE IF q.interval \notin AllowedIntervals THEN 400
                    ELSE IF candles.raised THEN 500
                    ELSE IF candles.points = 0 THEN 404
                    ELSE 200,
         fetched |-> c.fetched,
         ohlcv |-> IF called THEN 1 ELSE 0,
         points |-> IF called /\ ~candles.raised THEN candles.points ELSE -1]

\* "except Exception as e: raise HTTPException(status_code=500, ...)" of
\* predict_price: HTTPException is an Exception, so the 400 and the 422
\* raised inside the try block are caught here as well
predict_except(raised) == 500

\* predict_price
predict_price(q, candles, analysis_raised) ==
    IF q.interval \notin AllowedIntervals
    THEN [status |-> predict_except(400), ohlcv |-> 0, points |-> -1]
    ELSE IF candles.raised
    THEN [status |-> predict_except(0), ohlcv |-> 1, points |-> -1]
    ELSE IF candles.points < MinDataPoints
    THEN [status |-> predict_except(422), ohlcv |-> 1, points |-> candles.points]
    ELSE IF analysis_raised
    THEN [status |-> predict_except(0), ohlcv |-> 1, points |-> candles.points]
    ELSE [status |-> 200, ohlcv |-> 1, points |-> candles.points]

\* GET symbols is served (fetch_tickers is called for sort_by=volume only)
GetSymbols(q, tickers_raised) ==
    \E fetch \in FetchCalls(SYMBOLS_CACHE) :
    LET a == get_active_symbols(SYMBOLS_CACHE, q, fetch, tickers_raised)
    IN  /\ tickers_raised => q.sort_by = "volume"
        /\ SYMBOLS_CACHE' = a.cache
        /\ lastGet' = [endpoint |-> "symbols", request |-> q, status |-> a.status,
                      symbols |-> a.symbols, fetched |-> a.fetched,
                      ohlcv |-> 0, points |-> -1]
        /\ UNCHANGED <<mgrVars, liveVars, multiVars, batchVars, registryVars>>

\* GET historical/{symbol} is served
GetHistorical(q, candles) ==
    \E fetch \in FetchCalls(SYMBOLS_CACHE) :
    LET a == get_historical_data(SYMBOLS_CACHE, q, fetch, candles)
    IN  /\ SYMBOLS_CACHE' = a.cache
        /\ lastGet' = [endpoint |-> "historical", request |-> q, status |-> a.status,
                      symbols |-> << >>, fetched |-> a.fetched,
                      ohlcv |-> a.ohlcv, points |-> a.points]
        /\ UNCHANGED <<mgrVars, liveVars, multiVars, batchVars, registryVars>>

\* GET predict/{symbol} is served (analyze_market is called with 50 closes
\* or more only)
Predict(q, candles, analysis_raised) ==
    LET a == predict_price(q, candles, analysis_raised)
    IN  /\ analysis_raised => (~candles.raised /\ candles.points >= MinDataPoints)
        /\ lastGet' = [endpoint |-> "predict", request |-> q, status |-> a.status,
                      symbols |-> << >>, fetched |-> FALSE,
                      ohlcv |-> a.ohlcv, points |-> a.points]
        /\ UNCHANGED <<mgrVars, liveVars, multiVars, batchVars, registryVars, SYMBOLS_CACHE>>

Init ==
    /\ active_connections = EmptyDict
    /\ closed = {}
    /\ bc = BcIdle
    /\ live = [c \in Conns |-> LiveIdle]
    /\ lastFrame = [c \in Conns |-> NoFrame]
    /\ mh = MultiIdle
    /\ subscribed_symbols = {}
    /\ ds = SenderNone
    /\ mclosed = FALSE
    /\ mwire = NoWire
    /\ quick = NoQuick
    /\ http = HttpIdle
    /\ price_data = NoPriceData
    /\ response = NoResponse
    /\ answers = NoAnswers
    /\ health = [a \in Exchanges |-> HealthyAdapter]
    /\ history = << >>
    /\ SYMBOLS_CACHE = SymbolsCacheEmpty
    /\ lastGet = NoGet

Next ==
    \/ \E c \in Conns, s \in Symbols : Connect(c, s)
    \/ \E c \in Conns, s \in Symbols : Disconnect(c, s)
    \/ \E c \in Conns : TransportClose(c)
    \/ \E s \in Symbols : BroadcastStart(s)
    \/ BroadcastResume
    \/ BroadcastReturn

Spec == Init /\ [][Next]_vars

LiveNext ==
    \/ \E c \in Conns, raw \in RawSymbols : LiveOpen(c, raw)
    \/ \E c \in Conns : LiveSent(c)
    \/ \E c \in Conns, o \in TickerOutcomes : LiveTicker(c, o)
    \/ \E c \in Conns : LiveWake(c)
    \/ \E c \in Conns : TransportClose(c)

LiveSpec == Init /\ [][LiveNext]_vars

\* the event loop runs every coroutine that is ready
FairLiveSpec == LiveSpec /\ \A c \in Conns : WF_vars(LiveStep(c))

MultiNext ==
    \/ MultiOpen
    \/ MultiSent
    \/ \E f \in ControlFrames : MultiReceive(f)
    \/ MultiDisconnected
    \/ MultiTransportClose
    \/ SenderWake
    \/ \E o \in TickerOutcomes : SenderTicker(o)
    \/ SenderSent

MultiSpec == Init /\ [][MultiNext]_vars

BatchNext ==
    \/ \E e \in Endpoints, b \in Bodies : HttpRequest(e, b)
    \/ HttpReturn
    \/ HttpRaise
    \/ HttpDone

BatchSpec == Init /\ [][BatchNext]_vars

\* the bodies of the batch requests served next to the stream connections
ServiceBodies ==
    {[has |-> FALSE, symbols |-> << >>], [has |-> TRUE, symbols |-> <<"BTCUSDT">>]}

\* the application: batch requests are served while stream connections are
\* registered, leave and lose their transport
ServiceNext ==
    \/ \E c \in Conns, s \in Symbols : Connect(c, s)
    \/ \E c \in Conns, s \in Symbols : Disconnect(c, s)
    \/ \E c \in Conns : TransportClose(c)
    \/ \E e \in Endpoints, b \in ServiceBodies : HttpRequest(e, b)
    \/ \E path \in GetPaths, o \in HandlerOutcomes : HttpGet(path, o)
    \/ HttpReturn
    \/ HttpRaise
    \/ HttpDone

ServiceSpec == Init /\ [][ServiceNext]_vars

RegistryNext == \E a \in Exchanges, success \in BOOLEAN : RecordResult(a, success)

RegistrySpec == Init /\ [][RegistryNext]_vars

MarketNext ==
    \/ \E q \in SymbolsRequests, t \in BOOLEAN : GetSymbols(q, t)
    \/ \E q \in CandleRequests, c \in OhlcvOutcomes : GetHistorical(q, c)
    \/ \E q \in CandleRequests, c \in OhlcvOutcomes, r \in BOOLEAN : Predict(q, c, r)

MarketSpec == Init /\ [][MarketNext]_vars

\* ================================================================ claims

\* C1 (as claimed): after any sequence of connect, disconnect and broadcast
\* no symbol maps to an empty subscriber set: a symbol has an entry if and
\* only if at least one connection is subscribed to it.
C1_NoEmptySubscriberSet ==
    \A s \in Symbols :
        (s \in DOMAIN active_connections) <=> (Subscribers(active_connections, s) # {})

\* C2 (as claimed): once the transport of a connected /live socket has gone
\* away, the socket is eventually in no subscriber set and its streaming loop
\* has stopped.
C2_DisconnectedConnectionRemoved ==
    \A c \in Conns :
        (c \in closed /\ live[c].pc \in LivePolling)
            ~> (/\ live[c].pc = "stopped"
                /\ \A s \in DOMAIN active_connections : c \notin active_connections[s])

\* C3: a send that fails never makes broadcast raise (it raises only when the
\* set it iterates was changed under it); a broadcast that ends removes from
\* the symbol's set exactly the connections whose send failed and touches no
\* other entry; and when the set was not changed during the pass, every
\* connection of the set was sent the message.
C3_BroadcastIsolatesSendFailure ==
    [][ /\ (bc.status = "sending" /\ bc'.status = "raised")
            => IteratorInvalid(active_connections, bc)
        /\ (bc.status = "sending" /\ bc'.status = "done")
            => /\ DOMAIN active_connections' = DOMAIN active_connections
               /\ \A s \in DOMAIN active_connections :
                      active_connections'[s] =
                          IF s = bc.symbol
                          THEN active_connections[s] \ bc'.failed
                          ELSE active_connections[s]
               /\ bc'.failed = {c \in bc'.attempted : c \in bc'.disconnected}
               /\ bc'.disconnected \subseteq bc'.attempted
               /\ (~bc.dirty => bc'.attempted = active_connections[bc.symbol])
      ]_vars

\* C3 witness: a broadcast over an undisturbed set has ended, one send failed,
\* another connection got the message and is still subscribed
C3_Witness ==
    /\ bc.status = "done"
    /\ ~bc.dirty
    /\ bc.failed # {}
    /\ bc.attempted \ bc.failed # {}
    /\ Subscribers(active_connections, bc.symbol) = bc.attempted \ bc.failed

\* the sockets whose handler is in the streaming loop of a symbol
PollingTasks(s) == {c \in Conns : live[c].pc \in LivePolling /\ live[c].symbol = s}

C5_UnsubscribeStopsPolling ==
    /\ [](quick.dropped # {} => stats(active_connections).total_symbols = 0)
    /\ [][\A s \in quick.dropped :
            ~(/\ ds'.pc = "ticker"
              /\ ds'.cur = s
              /\ <<ds.pc, ds.cur>> # <<ds'.pc, ds'.cur>>)]_vars

\* the request body breaks the shape rules as the claims state them
ClaimedInvalid(h) ==
    \/ ~h.body.has
    \/ Len(h.body.symbols) = 0
    \/ Len(h.body.symbols) > (IF h.endpoint = "best-prices" THEN 10 ELSE 5)

\* C6: a batch request whose symbol list is missing, empty or longer than the
\* cap of its endpoint is answered without any call of the aggregator or of
\* the advisor having been issued.
C6_InvalidBatchIssuesNoCall ==
    (http.pc # "idle" /\ ClaimedInvalid(http))
        => /\ http.calls = 0
           /\ http.pc = "responded"
           /\ price_data = NoPriceData
           /\ response.status \notin 200..299

\* C6 witness: a request one above the cap was rejected on each endpoint kind
C6_Witness ==
    /\ http.pc = "responded"
    /\ http.endpoint = "arbitrage"
    /\ Len(http.body.symbols) = 6
    /\ http.calls = 0

\* C7 (as claimed): a request that fails the shape rules is answered with a
\* 4xx status, and only such requests are.
C7_ValidationFailureIsClientError ==
    http.pc = "responded"
        => (ClaimedInvalid(http) <=> response.status \in 400..499)

\* the prices of the entries of a result that are present, not unavailable
\* and above zero
UsablePrices(symbol_data) ==
    {symbol_data.exchanges[j].price : j \in
        {k \in DOMAIN symbol_data.exchanges :
            /\ symbol_data.exchanges[k].kind # "unavailable"
            /\ symbol_data.exchanges[k].price > 0}}

\* the number of exchanges of a result that report a usable price
UsableCount(symbol_data) ==
    Cardinality({k \in DOMAIN symbol_data.exchanges :
                    /\ symbol_data.exchanges[k].kind # "unavailable"
                    /\ symbol_data.exchanges[k].price > 0})

SetMin(S) == CHOOSE x \in S : \A y \in S : x <= y
SetMax(S) == CHOOSE x \in S : \A y \in S : x >= y

\* the opportunities of the answer that are about a symbol
Emitted(symbol) ==
    {i \in DOMAIN response.opportunities : response.opportunities[i].symbol = symbol}

ArbitrageAnswered == http.pc = "responded" /\ http.endpoint = "arbitrage"

\* C8: no opportunity is emitted for a symbol for which fewer than 2
\* exchanges report a usable price.
C8_NoOpportunityBelowTwoPrices ==
    ArbitrageAnswered =>
        \A i \in DOMAIN price_data :
            UsableCount(price_data[i]) < 2 => Emitted(price_data[i].symbol) = {}

\* C8 witness: one symbol of the answer has two entries and a single usable
\* price and got nothing, another symbol got an opportunity
C8_Witness ==
    /\ ArbitrageAnswered
    /\ response.status = 200
    /\ response.opportunities # << >>
    /\ \E i \in DOMAIN price_data :
          /\ Len(price_data[i].exchanges) >= 2
          /\ UsableCount(price_data[i]) = 1
          /\ Emitted(price_data[i].symbol) = {}

\* the result the opportunity i of the answer was computed from
ResultOf(i) ==
    CHOOSE k \in DOMAIN price_data : price_data[k].symbol = response.opportunities[i].symbol

\* C9 (as claimed): buy_price is the minimum and sell_price the maximum usable
\* price of the symbol, sell_price >= buy_price, and spread_percent is exactly
\* (sell_price - buy_price) / buy_price * 100 (here in units of 0.0001).
C9_SpreadIsExact ==
    ArbitrageAnswered =>
        \A i \in DOMAIN response.opportunities :
            LET o == response.opportunities[i]
            IN  /\ o.buy_price = SetMin(UsablePrices(price_data[ResultOf(i)]))
                /\ o.sell_price = SetMax(UsablePrices(price_data[ResultOf(i)]))
                /\ o.sell_price >= o.buy_price
                /\ o.spread_percent * o.buy_price
                       = (o.sell_price - o.buy_price) * 100 * 10000

\* C9 (amended): as claimed, but spread_percent is that quotient rounded to 4
\* decimal places (it is within half a unit of 0.0001 of the quotient).
C9_SpreadIsRounded ==
    ArbitrageAnswered =>
        \A i \in DOMAIN response.opportunities :
            LET o == response.opportunities[i]
                d == o.spread_percent * o.buy_price
                         - (o.sell_price - o.buy_price) * 100 * 10000
            IN  /\ o.buy_price = SetMin(UsablePrices(price_data[ResultOf(i)]))
                /\ o.sell_price = SetMax(UsablePrices(price_data[ResultOf(i)]))
                /\ o.sell_price >= o.buy_price
                /\ 2 * d <= o.buy_price
                /\ 2 * (0 - d) <= o.buy_price

\* C9 witness: an emitted opportunity whose spread is no multiple of 0.0001,
\* computed from the prices of three exchanges
C9_Witness ==
    /\ ArbitrageAnswered
    /\ \E i \in DOMAIN response.opportunities :
          LET o == response.opportunities[i]
          IN  /\ ((o.sell_price - o.buy_price) * 100 * 10000) % o.buy_price # 0
              /\ UsableCount(price_data[ResultOf(i)]) = 3

\* C10: a symbol with at least 2 usable prices gets an opportunity if and only
\* if its spread, (max - min) / min * 100, is strictly above 0.1.
C10_EmittedIffAboveThreshold ==
    (ArbitrageAnswered /\ response.status = 200) =>
        \A i \in DOMAIN price_data :
            UsableCount(price_data[i]) >= 2 =>
                LET lo == SetMin(UsablePrices(price_data[i]))
                    hi == SetMax(UsablePrices(price_data[i]))
                IN  (Emitted(price_data[i].symbol) # {}) <=> ((hi - lo) * 1000 > lo)

\* C10 witness: one symbol of the answer has a spread of exactly 0.1 and got
\* nothing, another has a larger spread and got an opportunity
C10_Witness ==
    /\ ArbitrageAnswered
    /\ response.status = 200
    /\ \E i, j \in DOMAIN price_data :
          /\ UsableCount(price_data[i]) >= 2
          /\ (SetMax(UsablePrices(price_data[i])) - SetMin(UsablePrices(price_data[i]))) * 1000
                 = SetMin(UsablePrices(price_data[i]))
          /\ Emitted(price_data[i].symbol) = {}
          /\ Emitted(price_data[j].symbol) # {}

\* the place of a symbol in lexical order
LexRank(symbol) == IF symbol = "BTCUSDT" THEN 1 ELSE 2

\* C11 (as claimed): the opportunities of an arbitrage answer are in
\* descending order of spread_percent, and two opportunities of equal
\* spread_percent are in lexical order of their symbols, whatever the order
\* of the symbols in the request.
C11_SortedBySpreadThenSymbol ==
    (ArbitrageAnswered /\ response.status = 200) =>
        \A i, j \in DOMAIN response.opportunities :
            i < j =>
                LET a == response.opportunities[i]
                    b == response.opportunities[j]
                IN  \/ a.spread_percent > b.spread_percent
                    \/ /\ a.spread_percent = b.spread_percent
                       /\ LexRank(a.symbol) <= LexRank(b.symbol)

\* the exchanges of a result whose usable price is q
ExchangesAt(symbol_data, q) ==
    {symbol_data.exchanges[k].name : k \in
        {n \in DOMAIN symbol_data.exchanges :
            /\ symbol_data.exchanges[n].kind # "unavailable"
            /\ symbol_data.exchanges[n].price > 0
            /\ symbol_data.exchanges[n].price = q}}

\* the exchange of a set that comes first in registry priority order
Preferred(names) == CHOOSE x \in names : \A y \in names : Priority(x) <= Priority(y)

\* C12 (as claimed): of the exchanges that report the minimum price of a
\* symbol, buy_exchange is the one of highest registry priority, and of those
\* that report the maximum price, sell_exchange is the one of highest
\* registry priority.
C12_TieGoesToHigherPriority ==
    (ArbitrageAnswered /\ response.status = 200) =>
        \A i \in DOMAIN response.opportunities :
            LET o == response.opportunities[i]
                r == price_data[ResultOf(i)]
            IN  /\ o.buy_exchange = Preferred(ExchangesAt(r, o.buy_price))
                /\ o.sell_exchange = Preferred(ExchangesAt(r, o.sell_price))

\* the results recorded for an adapter, oldest first
ResultsOf(adapter) ==
    LET idx == {i \in DOMAIN history : history[i].adapter = adapter}
        nth(k) == CHOOSE i \in idx : Cardinality({j \in idx : j <= i}) = k
    IN  [k \in 1..Cardinality(idx) |-> history[nth(k)].success]

\* the length of the run of failures a sequence of results ends in
TrailingFailures(rs) ==
    LET successes == {i \in DOMAIN rs : rs[i]}
    IN  IF successes = {} THEN Len(rs)
        ELSE Len(rs) - (CHOOSE i \in successes : \A j \in successes : j <= i)

\* C13: an adapter that started healthy is unhealthy if and only if the
\* results recorded for it end in a run of at least N consecutive failures;
\* so one success makes an unhealthy adapter healthy again and ends the run.
C13_UnhealthyIffFailureRun ==
    \A a \in Exchanges :
        (health[a].status = "unhealthy")
            <=> (TrailingFailures(ResultsOf(a)) >= FailureThreshold)

\* C13 witness: an adapter that is healthy again after N failures in a row
\* and one success, and has failed once more since
C13_Witness ==
    \E a \in Exchanges :
        LET rs == ResultsOf(a)
        IN  /\ Len(rs) = FailureThreshold + 2
            /\ \A i \in 1..FailureThreshold : ~rs[i]
            /\ rs[FailureThreshold + 1]
            /\ ~rs[FailureThreshold + 2]
            /\ health[a].status = "healthy"

BestPricesAnswered ==
    http.pc = "responded" /\ http.endpoint = "best-prices" /\ response.status = 200

EntriesOf(symbol_data, name) ==
    {k \in DOMAIN symbol_data.exchanges : symbol_data.exchanges[k].name = name}

AllFailed(symbol) == \A a \in Exchanges : answers[<<a, symbol>>].kind = "unavailable"

\* a best-prices request that passed the checks and whose aggregation raised
\* no internal error has been answered
BestPricesServed ==
    /\ http.pc = "responded"
    /\ http.endpoint = "best-prices"
    /\ answers # NoAnswers

ArbitrageServed ==
    /\ http.pc = "responded"
    /\ http.endpoint = "arbitrage"
    /\ answers # NoAnswers

\* the entries of a result that are "unavailable" markers or carry no usable
\* price
Unusable(symbol_data) ==
    {k \in DOMAIN symbol_data.exchanges :
        \/ symbol_data.exchanges[k].kind = "unavailable"
        \/ symbol_data.exchanges[k].price <= 0}

\* C17: an exchange entry that is an "unavailable" marker or has no usable
\* price never fails an arbitrage request: the answer is no failure, no
\* opportunity names such an entry, and every symbol whose usable prices are
\* at least 2 and spread above the threshold still gets its opportunity.
C17_UnusableEntryIsSkipped ==
    ArbitrageServed =>
        /\ response.status = 200
        /\ \A i \in DOMAIN price_data :
              LET r == price_data[i]
              IN  /\ \A k \in Unusable(r) : \A n \in Emitted(r.symbol) :
                        /\ response.opportunities[n].buy_exchange # r.exchanges[k].name
                        /\ response.opportunities[n].sell_exchange # r.exchanges[k].name
                  /\ (/\ UsableCount(r) >= 2
                      /\ (SetMax(UsablePrices(r)) - SetMin(UsablePrices(r))) * 1000
                             > SetMin(UsablePrices(r)))
                         => Emitted(r.symbol) # {}

\* C17 witness: the first symbol of the request has a marker and a single
\* usable price and got nothing; the second has a marker too and got its
\* opportunity
C17_Witness ==
    /\ ArbitrageServed
    /\ Len(price_data) = 2
    /\ price_data[1].symbol # price_data[2].symbol
    /\ \E k \in DOMAIN price_data[1].exchanges : price_data[1].exchanges[k].kind = "unavailable"
    /\ UsableCount(price_data[1]) = 1
    /\ Emitted(price_data[1].symbol) = {}
    /\ \E k \in DOMAIN price_data[2].exchanges : price_data[2].exchanges[k].kind = "unavailable"
    /\ Emitted(price_data[2].symbol) # {}

\* the step in which the aggregation of a best-prices or arbitrage request
\* ends in an internal error
AggregationFails ==
    /\ http.pc = "awaiting"
    /\ http.endpoint \in {"best-prices", "arbitrage"}
    /\ http'.pc = "responded"
    /\ answers' = NoAnswers

\* C18: an internal error raised while a best-prices or arbitrage request is
\* aggregated ends the request with status 500 and leaves the subscriber map
\* of the connection manager and the streams as they were.
C18_InternalErrorIsContained ==
    [][AggregationFails =>
          /\ response'.status = 500
          /\ UNCHANGED <<mgrVars, liveVars, multiVars>>]_vars

\* C18 witness: a request answered 500 after its aggregation failed, while
\* a connection is subscribed to each symbol
C18_Witness ==
    /\ http.pc = "responded"
    /\ http.endpoint = "arbitrage"
    /\ http.calls = 1
    /\ answers = NoAnswers
    /\ response.status = 500
    /\ \A s \in Symbols : Subscribers(active_connections, s) # {}

\* C19 (as claimed): a GET of /pairs/ on the application of create_app is
\* routed to list_pairs and, the listing of the pairs succeeding, answered
\* with status 200 and a body that has the key "pairs".
C19_PairsRouteIsServed ==
    (http.pc = "responded" /\ http.endpoint = "/pairs/") =>
        /\ http.handler = "list_pairs"
        /\ response.status \in {200, 500}
        /\ response.status = 200 => "pairs" \in response.keys

\* the symbols that have at least one subscribed connection
SubscribedSymbols == {s \in Symbols : Subscribers(active_connections, s) # {}}

RECURSIVE SumCounts(_, _)
\* the sum of the counts of the symbols S
SumCounts(counts, S) ==
    IF S = {}
    THEN 0
    ELSE LET s == CHOOSE x \in S : TRUE
         IN  counts[s] + SumCounts(counts, S \ {s})

\* C20 (as claimed): at any time stats() reports as total_symbols the number
\* of symbols with at least one subscribed connection, for each of them the
\* number of connections subscribed to it, and as total_connections the sum
\* of the per-symbol counts.
C20_StatsMatchSubscriptions ==
    LET st == stats(active_connections)
    IN  /\ st.total_symbols = Cardinality(SubscribedSymbols)
        /\ \A s \in SubscribedSymbols :
              /\ s \in DOMAIN st.connections_by_symbol
              /\ st.connections_by_symbol[s]
                     = Cardinality(Subscribers(active_connections, s))
        /\ st.total_connections
               = SumCounts(st.connections_by_symbol, DOMAIN st.connections_by_symbol)

\* the upper-cased symbols a control frame names, written out for the
\* symbols clients send
UpperCased(symbols) ==
    {IF symbols[i] \in {"btcusdt", "BTCUSDT"} THEN "BTCUSDT" ELSE "ETHUSDT"
        : i \in DOMAIN symbols}

\* C21: on /multi a subscribe frame naming the symbols S makes the set the
\* previous set united with the upper-cased symbols of S, an unsubscribe frame
\* makes it the previous set minus them, the acknowledgement lists exactly the
\* resulting set, and a frame that repeats the frame before it leaves the set
\* as it is.
C21_SubscriptionSetAlgebra ==
    [][ (/\ mh.pc = "receive"
         /\ mh'.pc = "ack"
         /\ quick'.frame.kind \in {"subscribe", "unsubscribe"})
        => LET S == UpperCased(quick'.frame.symbols)
           IN  /\ quick'.frame.kind = "subscribe"
                    => /\ subscribed_symbols' = subscribed_symbols \cup S
                       /\ mh'.pending = WireFrame("subscribed", subscribed_symbols')
               /\ quick'.frame.kind = "unsubscribe"
                    => /\ subscribed_symbols' = subscribed_symbols \ S
                       /\ mh'.pending = WireFrame("unsubscribed", subscribed_symbols')
               /\ quick.frame = quick'.frame
                    => subscribed_symbols' = subscribed_symbols
      ]_vars

\* C21 witness: with both symbols subscribed, an unsubscribe frame naming
\* "btcusdt" in lower case is being acknowledged with the one symbol left
C21_Witness ==
    /\ mh.pc = "ack"
    /\ quick.frame = [kind |-> "unsubscribe", symbols |-> <<"btcusdt">>]
    /\ subscribed_symbols = {"ETHUSDT"}
    /\ mh.pending = WireFrame("unsubscribed", {"ETHUSDT"})
    /\ "BTCUSDT" \in quick.dropped

\* C22 (as claimed): a broadcast interleaved, at the suspension points of its
\* sends, with connects and disconnects on the same symbol completes without
\* raising, whether the subscriber set was changed or its entry deleted
\* meanwhile.
C22_BroadcastSurvivesMutation == bc.status # "raised"

\* C23 (as claimed): data_sender terminates once the symbol set has become
\* empty: when the last symbol was unsubscribed and the task has since begun
\* a polling cycle that found no subscription, the task no longer runs.
C23_SenderEndsWhenSetEmpty ==
    (quick.emptied /\ subscribed_symbols = {} /\ ds.idle)
        => ds.pc \in {"none", "cancelled"}

\* the symbols of a sequence
Range(q) == {q[i] : i \in DOMAIN q}

\* C24: within one polling cycle get_ticker is called at most once for each
\* symbol of the cycle's snapshot, failed or not; a call that fails is
\* followed by the call for the next symbol of the snapshot (or by the sleep
\* when it was the last), never by a second call for the same symbol; a
\* cycle that is not cancelled ends with every symbol of its snapshot fetched
\* once, and the task then sleeps and goes on to its next cycle.
C24_FailedFetchIsNotRetried ==
    /\ [](ds.pc \in {"ticker", "send", "sleep"}
            => /\ \A i, j \in DOMAIN ds.done : i # j => ds.done[i] # ds.done[j]
               /\ Range(ds.done) \subseteq ds.snap
               /\ ds.failed \subseteq Range(ds.done)
               /\ ds.pc = "sleep" => Range(ds.done) = ds.snap)
    /\ [][ (ds.pc = "ticker" /\ ds'.pc # "cancelled" /\ ds'.failed # ds.failed)
            => /\ ds'.failed = ds.failed \cup {ds.cur}
               /\ IF ds.rest = << >>
                  THEN ds'.pc = "sleep"
                  ELSE /\ ds'.pc = "ticker"
                       /\ ds'.cur = Head(ds.rest)
                       /\ ds'.cur \notin Range(ds.done)
                       /\ ds'.done = Append(ds.done, ds'.cur)
         ]_vars
    /\ [][ds.pc = "sleep" => ds'.pc \in {"sleep", "ticker", "cancelled"}]_vars

\* C24 witness: a cycle over two symbols has ended; the fetch of the first
\* symbol failed, the second was fetched after it and its price_update is the
\* last frame on the wire
C24_Witness ==
    /\ ds.pc = "sleep"
    /\ ds.snap = Symbols
    /\ ds.done = <<"BTCUSDT", "ETHUSDT">>
    /\ ds.failed = {"BTCUSDT"}
    /\ mwire = WireFrame("price_update", {"ETHUSDT"})

\* C27 (as claimed): once the "unsubscribed" acknowledgement for a symbol has
\* been sent, data_sender starts no send of a price_update for that symbol to
\* the open connection until the symbol is subscribed again.
C27_NoUpdateAfterUnsubscribedAck ==
    [][ (ds.pc = "ticker" /\ ds'.pc = "send" /\ ~mclosed)
            => ds.cur \notin quick.left ]_vars

\* C28: once the handler of /multi has returned, whatever ended its receive
\* loop (the client went away, the send of an acknowledgement failed, a
\* control frame made the handler raise), data_sender does not run and no
\* frame is sent on the connection any more.
C28_SenderCancelledOnEveryExit ==
    /\ [](mh.pc = "ended" => ds.pc \in {"none", "cancelled"})
    /\ [][mh.pc = "ended" => mwire' = mwire]_vars

\* C28 witness: the sender had sent a price_update on the open connection
\* when a control frame that is JSON but no object made the handler raise;
\* the handler has returned and the sender is cancelled
C28_Witness ==
    /\ mh.pc = "ended"
    /\ quick.frame.kind = "not_object"
    /\ ~mclosed
    /\ subscribed_symbols # {}
    /\ mwire.type = "price_update"
    /\ ds.pc = "cancelled"

\* C29 (as claimed): a control frame on /multi that is not valid JSON, or
\* whose action is neither "subscribe" nor "unsubscribe", is answered with an
\* error frame, leaves the subscription set unchanged, and leaves the
\* connection open with the sender task running.
C29_BadControlFrameIsAnswered ==
    [][ (/\ mh.pc = "receive"
         /\ mh'.pc # "receive"
         /\ ~mclosed
         /\ quick'.frame.kind \notin {"subscribe", "unsubscribe"})
        => /\ mh'.pc = "ack"
           /\ mh'.pending = WireFrame("error", {})
           /\ subscribed_symbols' = subscribed_symbols
           /\ ds' = ds
      ]_vars

\* the list is in the order of the quote volumes, falling or rising
OrderedByVolume(list, descending) ==
    \A i, j \in DOMAIN list :
        i < j => IF descending
                 THEN QuoteVolume(list[i]) >= QuoteVolume(list[j])
                 ELSE QuoteVolume(list[i]) <= QuoteVolume(list[j])

\* C25 (as claimed): the list GET symbols returns for sort_by=volume is in the
\* order of falling quote volume when descending is true and of rising quote
\* volume when it is false, for every request, whatever requests with the same
\* quote_asset and search were served before.
C25_VolumeOrderFollowsDescending ==
    (/\ lastGet.endpoint = "symbols"
     /\ lastGet.status = 200
     /\ lastGet.request.sort_by = "volume")
        => OrderedByVolume(lastGet.symbols, lastGet.request.descending)

\* C26 (as claimed): once a symbol list was fetched and stored in the symbol
\* cache, no later request of any endpoint calls fetch_symbols again,
\* whatever the stored list holds (an empty list included).
C26_SymbolListFetchedOnce ==
    [][ ("symbols" \in DOMAIN SYMBOLS_CACHE /\ lastGet' # lastGet)
            => ~lastGet'.fetched ]_vars

\* C30 (as claimed): GET predict with an interval outside the allowed list is
\* answered 400 without a fetch of OHLCV data, and a fetch that returns fewer
\* than 50 data points is answered 422.
C30_PredictValidationStatus ==
    lastGet.endpoint = "predict"
        => /\ lastGet.request.interval \notin AllowedIntervals
                => (lastGet.status = 400 /\ lastGet.ohlcv = 0)
           /\ (/\ lastGet.request.interval \in AllowedIntervals
               /\ lastGet.points \in 0..(MinDataPoints - 1))
                => lastGet.status = 422

====
